---- MODULE Spec2Model ----
(***************************************************************************)
(* Unit converter (src/app.py): the conversion engine convert_value with   *)
(* its helpers temp_to_kelvin, kelvin_to_temp and pretty, the to_base      *)
(* table, and the event handlers of the form built around it.              *)
(*                                                                         *)
(* Python numbers are modelled as they are: an int is an unbounded         *)
(* integer, a float is an IEEE 754 binary64 value and every float          *)
(* operation rounds to nearest, ties to even.  Integers beyond the range   *)
(* of the model checker's machine integers are kept as sequences of limbs  *)
(* (little endian, base 2^15).                                             *)
(***************************************************************************)
EXTENDS Integers, Sequences, FiniteSets, TLC

(***************************************************************************)
(* Unbounded naturals: <<>> is 0, the last limb of a number is not 0.      *)
(* The operations are written without recursion over the limbs where that  *)
(* is possible (a carry is found by looking back over the limbs that pass  *)
(* it on), and intermediate results are handed on as operator arguments,   *)
(* so that neither the depth of an evaluation nor the size of the          *)
(* expanded definitions grows with the numbers.                            *)
(***************************************************************************)
Base == 2^15

Max(a, b) == IF a >= b THEN a ELSE b

Min(a, b) == IF a <= b THEN a ELSE b

Limb(a, i) == IF i >= 1 /\ i <= Len(a) THEN a[i] ELSE 0

\* the sequence f[1], ..., f[n] of a function f on 1..n, each element computed
\* once
Tuple(f) == f \o <<>>

LastNonZero(a) ==
  IF \A i \in 1..Len(a) : a[i] = 0 THEN 0
  ELSE CHOOSE j \in 1..Len(a) : a[j] # 0 /\ \A k \in (j + 1)..Len(a) : a[k] = 0

BNorm(a) == SubSeq(a, 1, LastNonZero(a))

BOfInt(n) ==
  IF n = 0 THEN <<>>
  ELSE IF n < Base THEN <<n>>
  ELSE IF n < Base * Base THEN <<n % Base, n \div Base>>
  ELSE <<n % Base, (n \div Base) % Base, n \div (Base * Base)>>

BIsZero(a) == Len(a) = 0

\* the highest limb in which a and b differ, 0 if there is none
TopDiff(a, b) ==
  IF \A i \in 1..Len(a) : a[i] = b[i] THEN 0
  ELSE CHOOSE j \in 1..Len(a) : a[j] # b[j] /\ \A k \in (j + 1)..Len(a) : a[k] = b[k]

Sign(n) == IF n > 0 THEN 1 ELSE IF n < 0 THEN -1 ELSE 0

\* -1, 0 or 1 as a < b, a = b or a > b
BCmp(a, b) ==
  IF Len(a) # Len(b) THEN Sign(Len(a) - Len(b))
  ELSE Sign(Limb(a, TopDiff(a, b)) - Limb(b, TopDiff(a, b)))

\* the carry into limb i of limb sums s[j] < 2 * Base: a limb below i
\* overflows and every limb between them is Base - 1
Carry(s, i) ==
  IF \E j \in 1..(i - 1) : s[j] >= Base /\ \A k \in (j + 1)..(i - 1) : s[k] = Base - 1
  THEN 1 ELSE 0

\* the number with the limb sums s
Carried(s) ==
  BNorm(Tuple([i \in 1..(Len(s) + 1) |-> (Limb(s, i) + Carry(s, i)) % Base]))

BAdd(a, b) == Carried(Tuple([i \in 1..Max(Len(a), Len(b)) |-> Limb(a, i) + Limb(b, i)]))

\* the borrow from limb i of limb differences d[j] > -Base
Borrow(d, i) ==
  IF \E j \in 1..(i - 1) : d[j] < 0 /\ \A k \in (j + 1)..(i - 1) : d[k] = 0
  THEN 1 ELSE 0

Borrowed(d) == BNorm(Tuple([i \in 1..Len(d) |-> (d[i] - Borrow(d, i) + Base) % Base]))

\* a - b, for a >= b
BSub(a, b) == Borrowed(Tuple([i \in 1..Len(a) |-> a[i] - Limb(b, i)]))

\* the number with the column sums c[k] < Base * Base: low and high halves
\* are added
Columns(c) ==
  BAdd(Tuple([k \in 1..Len(c) |-> c[k] % Base]),
       <<0>> \o Tuple([k \in 1..Len(c) |-> c[k] \div Base]))

\* a * k, for 0 <= k < Base
BMulSmall(a, k) == Columns(Tuple([i \in 1..Len(a) |-> a[i] * k]))

\* the sum of f[i] for i in lo..hi
RECURSIVE Sum(_, _, _)
Sum(f, lo, hi) ==
  IF lo > hi THEN 0
  ELSE IF lo = hi THEN f[lo]
  ELSE Sum(f, lo, (lo + hi) \div 2) + Sum(f, (lo + hi) \div 2 + 1, hi)

\* column k of a * b: the low halves of the limb products of weight
\* Base^(k - 1) and the high halves of those of weight Base^(k - 2)
Column(a, b, k) ==
  Sum([i \in Max(1, k - Len(b) + 1)..Min(Len(a), k) |->
         (a[i] * b[k - i + 1]) % Base],
      Max(1, k - Len(b) + 1), Min(Len(a), k))
  + Sum([i \in Max(1, k - Len(b))..Min(Len(a), k - 1) |->
           (a[i] * b[k - i]) \div Base],
        Max(1, k - Len(b)), Min(Len(a), k - 1))

BMul(a, b) ==
  IF Len(a) = 0 \/ Len(b) = 0 THEN <<>>
  ELSE Columns(Tuple([k \in 1..(Len(a) + Len(b)) |-> Column(a, b, k)]))

Zeros(n) == Tuple([i \in 1..n |-> 0])

BitLenInt(n) ==
  IF n = 0 THEN 0 ELSE CHOOSE i \in 1..31 : n < 2^i /\ n >= 2^(i - 1)

\* the number of bits of a: the least n with a < 2^n
BBitLen(a) == IF BIsZero(a) THEN 0 ELSE 15 * (Len(a) - 1) + BitLenInt(a[Len(a)])

\* a * 2^s, for 0 <= s < 15
ShlBits(a, s) ==
  BNorm(Tuple([i \in 1..(Len(a) + 1) |->
                 ((Limb(a, i) * 2^s) % Base) + (Limb(a, i - 1) \div 2^(15 - s))]))

\* a * 2^n
BShl(a, n) == IF BIsZero(a) THEN a ELSE Zeros(n \div 15) \o ShlBits(a, n % 15)

BDropLimbs(a, n) == IF n >= Len(a) THEN <<>> ELSE SubSeq(a, n + 1, Len(a))

\* a \div 2^s, for 0 <= s < 15
ShrBits(a, s) ==
  BNorm(Tuple([i \in 1..Len(a) |->
                 (a[i] \div 2^s) + ((Limb(a, i + 1) % 2^s) * 2^(15 - s))]))

\* a \div 2^n
BShr(a, n) == ShrBits(BDropLimbs(a, n \div 15), n % 15)

\* whether a is a multiple of 2^n
BLowZero(a, n) ==
  /\ \A i \in 1..Min(n \div 15, Len(a)) : a[i] = 0
  /\ Limb(a, n \div 15 + 1) % 2^(n % 15) = 0

BBit(a, n) == (Limb(a, n \div 15 + 1) \div 2^(n % 15)) % 2

BIsOdd(a) == Limb(a, 1) % 2 = 1

\* The limb q with q * b <= r < (q + 1) * b, for r < Base * b and a divisor
\* whose leading limb is at least Base / 2, from the estimate qhat made from
\* the leading limbs, which is q, q + 1 or q + 2: one is taken off for each of
\* qhat and qhat - 1 that is too big.
Fitted(r, b, qhat) ==
  qhat - Cardinality({k \in 0..Min(1, qhat) : BCmp(BMulSmall(b, qhat - k), r) > 0})

BDivStep(r, b) ==
  Fitted(r, b, Min(Base - 1, (Limb(r, Len(b) + 1) * Base + Limb(r, Len(b))) \div b[Len(b)]))

\* <<<<q>>, r - q * b>>
DivLimb(r, b, q) == <<<<q>>, BSub(r, BMulSmall(b, q))>>

\* the quotient limbs H of the upper half before those of the lower half
DivJoin(H, L) == <<L[1] \o H[1], L[2]>>

\* Long division over the limbs lo..hi of a, from the leading limb down: the
\* remainder r of the limbs above enters, <<quotient limbs, remainder>> is
\* returned.
RECURSIVE BDivRange(_, _, _, _, _), DivUpper(_, _, _, _, _)
BDivRange(a, b, lo, hi, r) ==
  IF lo > hi THEN <<<<>>, r>>
  ELSE IF lo = hi
  THEN DivLimb(BNorm(<<a[lo]>> \o r), b, BDivStep(BNorm(<<a[lo]>> \o r), b))
  ELSE DivUpper(a, b, lo, (lo + hi) \div 2, BDivRange(a, b, (lo + hi) \div 2 + 1, hi, r))

\* the lower half of a range, after its upper half H
DivUpper(a, b, lo, mid, H) ==
  IF Len(H[2]) >= 0 THEN DivJoin(H, BDivRange(a, b, lo, mid, H[2])) ELSE H

\* <<a \div b, a % b>> of operands scaled by 2^sh so that the leading limb of
\* the divisor is at least Base / 2
DivScaled(as, bs, nq) == BDivRange(as, bs, 1, nq, BDropLimbs(as, nq))

DivUnscale(qr, sh) == <<BNorm(qr[1]), BShr(qr[2], sh)>>

DivShift(a, b, sh) ==
  DivUnscale(DivScaled(BShl(a, sh), BShl(b, sh),
                       Len(BShl(a, sh)) - Len(BShl(b, sh)) + 1), sh)

\* <<a \div b, a % b>>, for b > 0
BDivMod(a, b) ==
  IF BCmp(a, b) < 0 THEN <<<<>>, a>>
  ELSE DivShift(a, b, 15 - BitLenInt(b[Len(b)]))

\* h * h, times a if odd = 1
PowStep(a, h, odd) == BMul(BMul(h, h), IF odd = 1 THEN a ELSE <<1>>)

RECURSIVE BPow(_, _)
BPow(a, n) ==
  IF n <= 0 THEN <<1>>
  ELSE IF n = 1 THEN a
  ELSE PowStep(a, BPow(a, n \div 2), n % 2)

BPow2(n) == BShl(<<1>>, n)

\* 10^0, ..., 10^31, worked out once
SmallPow10 == Tuple([i \in 1..32 |-> BPow(<<10>>, i - 1)])

BPow10(n) == IF n < Len(SmallPow10) THEN SmallPow10[n + 1] ELSE BPow(<<10>>, n)

(***************************************************************************)
(* Python numbers.  A number is a record: t is "int" or "float"; k is      *)
(* "fin", "inf" or "nan"; s is the sign bit; a finite number is            *)
(* (-1)^s * m * 2^e, an int with e = 0 and a float with m < 2^53 and       *)
(* e >= MinExp, m >= 2^52 unless e = MinExp.  An operation that raises     *)
(* yields the record of the exception instead, t = "raise" and k the       *)
(* exception class.                                                        *)
(***************************************************************************)
Prec == 53

MinExp == -1074

MaxExp == 971

PyInt(s, m) == [t |-> "int", k |-> "fin", s |-> IF BIsZero(m) THEN 0 ELSE s, m |-> m, e |-> 0]

Flt(s, m, e) == [t |-> "float", k |-> "fin", s |-> s, m |-> m, e |-> IF BIsZero(m) THEN 0 ELSE e]

Inf(s) == [t |-> "float", k |-> "inf", s |-> s, m |-> <<>>, e |-> 0]

NaN == [t |-> "float", k |-> "nan", s |-> 0, m |-> <<>>, e |-> 0]

Raise(cls) == [t |-> "raise", k |-> cls, s |-> 0, m |-> <<>>, e |-> 0]

IsRaise(x) == x.t = "raise"

IsZero(x) == x.k = "fin" /\ BIsZero(x.m)

\* m * 2^e with m < 2^53: an infinity beyond the largest float
Ranged(s, m, e) == IF e > MaxExp THEN Inf(s) ELSE Flt(s, m, e)

\* m * 2^e with m <= 2^53 after rounding: renormalised
Pack(s, m, e) ==
  IF BBitLen(m) > Prec THEN Ranged(s, BShr(m, 1), e + 1) ELSE Ranged(s, m, e)

\* t or t + 1, whichever is nearest to t + f where half says f >= 1/2 and
\* rest says f is not 0 or 1/2: ties to even
Nearest(t, half, rest) == IF half /\ (rest \/ BIsOdd(t)) THEN BAdd(t, <<1>>) ELSE t

\* Round to the unit 2^E
RoundAt(s, q, sticky, e, E) ==
  IF E <= e THEN Pack(s, BShl(q, e - E), E)
  ELSE Pack(s, Nearest(BShr(q, E - e), BBit(q, E - e - 1) = 1,
                       sticky \/ ~BLowZero(q, E - e - 1)), E)

\* The float nearest to (-1)^s * (q + r) * 2^e, ties to even, where 0 <= r < 1
\* and sticky says r > 0 (q then has at least Prec + 2 bits).
Round(s, q, sticky, e) ==
  IF BIsZero(q) THEN Flt(s, <<>>, 0)
  ELSE RoundAt(s, q, sticky, e, Max(e + BBitLen(q) - Prec, MinExp))

\* the float nearest to (-1)^s * (qr[1] + qr[2] / den) * 2^e
RoundQuot(s, qr, e) == Round(s, qr[1], ~BIsZero(qr[2]), e)

RatioAt(s, num, den, e, a) == RoundQuot(s, BDivMod(BShl(num, a), den), e - a)

\* The float nearest to (-1)^s * (num / den) * 2^e, num > 0 and den > 0: the
\* quotient is taken with at least Prec + 2 bits
Ratio(s, num, den, e) ==
  RatioAt(s, num, den, e, Max(0, Prec + 3 + BBitLen(den) - BBitLen(num)))

OverflowIfInf(r) == IF r.k = "inf" THEN Raise("OverflowError") ELSE r

\* float(x) of an int: OverflowError when it is beyond the floats
ToFloat(x) ==
  IF x.t # "int" THEN x ELSE OverflowIfInf(Round(x.s, x.m, FALSE, 0))

FNeg(x) == IF x.k = "nan" THEN x ELSE [x EXCEPT !.s = 1 - x.s]

\* (-1)^sx * ax + (-1)^sy * ay, times 2^e; an exact zero is +0.0
AddSigned(sx, ax, sy, ay, e, c) ==
  Round(IF sx = sy \/ c > 0 THEN sx ELSE IF c < 0 THEN sy ELSE 0,
        IF sx = sy THEN BAdd(ax, ay) ELSE IF c >= 0 THEN BSub(ax, ay) ELSE BSub(ay, ax),
        FALSE, e)

AddAligned(sx, ax, sy, ay, e) == AddSigned(sx, ax, sy, ay, e, BCmp(ax, ay))

\* x + y of two finite floats that are not zero
FAddFin(x, y) ==
  AddAligned(x.s, BShl(x.m, x.e - Min(x.e, y.e)),
             y.s, BShl(y.m, y.e - Min(x.e, y.e)), Min(x.e, y.e))

FAdd(x, y) ==
  IF x.k = "nan" \/ y.k = "nan" THEN NaN
  ELSE IF x.k = "inf" THEN (IF y.k = "inf" /\ y.s # x.s THEN NaN ELSE x)
  ELSE IF y.k = "inf" THEN y
  ELSE IF IsZero(x) /\ IsZero(y) THEN Flt(IF x.s = 1 /\ y.s = 1 THEN 1 ELSE 0, <<>>, 0)
  ELSE IF IsZero(x) THEN y
  ELSE IF IsZero(y) THEN x
  ELSE FAddFin(x, y)

Xor(a, b) == IF a = b THEN 0 ELSE 1

FMul(x, y) ==
  IF x.k = "nan" \/ y.k = "nan" THEN NaN
  ELSE IF x.k = "inf" \/ y.k = "inf"
  THEN (IF IsZero(x) \/ IsZero(y) THEN NaN ELSE Inf(Xor(x.s, y.s)))
  ELSE Round(Xor(x.s, y.s), BMul(x.m, y.m), FALSE, x.e + y.e)

FDiv(x, y) ==
  IF IsZero(y) THEN Raise("ZeroDivisionError")
  ELSE IF x.k = "nan" \/ y.k = "nan" THEN NaN
  ELSE IF x.k = "inf" THEN (IF y.k = "inf" THEN NaN ELSE Inf(Xor(x.s, y.s)))
  ELSE IF y.k = "inf" \/ IsZero(x) THEN Flt(Xor(x.s, y.s), <<>>, 0)
  ELSE Ratio(Xor(x.s, y.s), x.m, y.m, x.e - y.e)

\* x ** n of a finite float, n >= 1: the exact power, rounded once
FPow(x, n) == Round(IF n % 2 = 0 THEN 0 ELSE x.s, BPow(x.m, n), FALSE, x.e * n)

\* an operator of the source on two floats, unless converting an operand
\* raised
FOp(op, fx, fy) ==
  IF IsRaise(fx) THEN fx
  ELSE IF IsRaise(fy) THEN fy
  ELSE CASE op \in {"+", "-"} -> FAdd(fx, IF op = "-" THEN FNeg(fy) ELSE fy)
         [] op = "*" -> FMul(fx, fy)
         [] op = "/" -> FDiv(fx, fy)

\* The operators of the source, on ints and floats: an int operand is first
\* converted (the other operand is a float wherever the source uses them),
\* and an exception raised by an operand is the result.
PyOp(op, x, y) ==
  IF IsRaise(x) THEN x
  ELSE IF IsRaise(y) THEN y
  ELSE FOp(op, ToFloat(x), ToFloat(y))

\* x < 0
IsNegative(x) == x.k # "nan" /\ x.s = 1 /\ ~IsZero(x)

\* the digits ds[lo..hi] of a decimal numeral, most significant first, as a
\* number
RECURSIVE BOfDigits(_, _, _)
BOfDigits(ds, lo, hi) ==
  IF lo > hi THEN <<>>
  ELSE IF lo = hi THEN BOfInt(ds[lo])
  ELSE BAdd(BMul(BOfDigits(ds, lo, (lo + hi) \div 2), BPow10(hi - (lo + hi) \div 2)),
            BOfDigits(ds, (lo + hi) \div 2 + 1, hi))

\* the float nearest to (-1)^s * D * 10^p
DecToFloat(s, D, p) ==
  IF BIsZero(D) THEN Flt(s, <<>>, 0)
  ELSE IF p >= 0 THEN Round(s, BMul(D, BPow10(p)), FALSE, 0)
  ELSE Ratio(s, D, BPow10(-p), 0)

\* an int, -2^31 < n < 2^31
IntLit(n) == IF n < 0 THEN PyInt(1, BOfInt(-n)) ELSE PyInt(0, BOfInt(n))

(***************************************************************************)
(* The expressions of the source, as data: a value at hand, a float        *)
(* literal n * 10^p for a small n (written n.0, with -p digits after the   *)
(* point, or ne<p>), a float literal with the digits ds and -p of them     *)
(* after the point, and the operators applied to expressions.  Eval is     *)
(* their value.                                                            *)
(***************************************************************************)
Val(x) == <<"val", x>>

Lit(n, p) == <<"lit", n, <<>>, p>>

LitD(ds, p) == <<"lit", 0, ds, p>>

Add(a, b) == <<"+", a, b>>

Sub(a, b) == <<"-", a, b>>

Mul(a, b) == <<"*", a, b>>

Div(a, b) == <<"/", a, b>>

Pow(a, n) == <<"**", a, n>>

\* the digits of a literal, as a number
Magnitude(l) ==
  IF l[3] = <<>> THEN BOfInt(IF l[2] < 0 THEN -l[2] ELSE l[2])
  ELSE BOfDigits(l[3], 1, Len(l[3]))

RECURSIVE Eval(_)
Eval(x) ==
  CASE x[1] = "val" -> x[2]
    [] x[1] = "lit" -> DecToFloat(IF x[2] < 0 THEN 1 ELSE 0, Magnitude(x), x[4])
    [] x[1] = "**"  -> FPow(Eval(x[2]), x[3])
    [] OTHER        -> PyOp(x[1], Eval(x[2]), Eval(x[3]))

(***************************************************************************)
(* Decimal text: str(int) and the format specification ".10g".             *)
(***************************************************************************)
DigitChar == <<"0", "1", "2", "3", "4", "5", "6", "7", "8", "9">>

\* the digits ds[lo..hi] in one string
RECURSIVE Join(_, _, _)
Join(ds, lo, hi) ==
  IF lo > hi THEN ""
  ELSE IF lo = hi THEN DigitChar[ds[lo] + 1]
  ELSE Join(ds, lo, (lo + hi) \div 2) \o Join(ds, (lo + hi) \div 2 + 1, hi)

RECURSIVE Repeat(_, _)
Repeat(c, n) == IF n <= 0 THEN "" ELSE c \o Repeat(c, n - 1)

\* the n decimal digits of a < 10^n, most significant first
RECURSIVE BDecDigits(_, _), DecSplit(_, _)
BDecDigits(a, n) ==
  IF n <= 4 THEN Tuple([i \in 1..n |-> (Limb(a, 1) \div 10^(n - i)) % 10])
  ELSE DecSplit(BDivMod(a, BPow10(n \div 2)), n)

DecSplit(qr, n) == BDecDigits(qr[1], n - n \div 2) \o BDecDigits(qr[2], n \div 2)

FirstNonZero(ds) ==
  CHOOSE i \in 1..Len(ds) : ds[i] # 0 /\ \A j \in 1..(i - 1) : ds[j] = 0

Numeral(ds) == Join(ds, FirstNonZero(ds), Len(ds))

\* the decimal numeral of a, without leading zeros
BStr(a) ==
  IF BIsZero(a) THEN "0"
  ELSE Numeral(BDecDigits(a, (BBitLen(a) * 30103) \div 100000 + 1))

\* str(x) of an int
PyStr(x) == (IF x.s = 1 THEN "-" ELSE "") \o BStr(x.m)

SigDigits == 10

QuotRem(n, d) == <<BDivMod(n, d), d>>

\* <<<<q, r>>, d>> with num / den / 10^sh = q + r / d, 0 <= r < d
Scaled(num, den, sh) ==
  QuotRem(BMul(num, BPow10(Max(-sh, 0))), BMul(den, BPow10(Max(sh, 0))))

\* the X with 10^X <= num / den < 10^(X + 1), found from a first guess: q is
\* the integer part of num / den / 10^(X - (SigDigits - 1))
RECURSIVE DecExp(_, _, _), DecAdjust(_, _, _, _)
DecExp(num, den, X) ==
  DecAdjust(num, den, X, Scaled(num, den, X - (SigDigits - 1))[1][1])

DecAdjust(num, den, X, q) ==
  IF BCmp(q, BPow10(SigDigits - 1)) < 0 THEN DecExp(num, den, X - 1)
  ELSE IF BCmp(q, BPow10(SigDigits)) >= 0 THEN DecExp(num, den, X + 1)
  ELSE X

\* rounding up to 10^SigDigits moves to the next decimal exponent
DecOut(q, X, ov) ==
  <<BDecDigits(IF ov THEN BPow10(SigDigits - 1) ELSE q, SigDigits),
    IF ov THEN X + 1 ELSE X>>

DecCarry(q, X) == DecOut(q, X, BCmp(q, BPow10(SigDigits)) >= 0)

\* q + r / d to the nearest integer, ties to even: c compares 2 * r with d
DecNearest(q, c, X) == DecCarry(Nearest(q, c >= 0, c > 0), X)

DecRound(sc, X) == DecNearest(sc[1][1], BCmp(BShl(sc[1][2], 1), sc[2]), X)

DecimalAt(num, den, X) == DecRound(Scaled(num, den, X - (SigDigits - 1)), X)

DecimalOf(num, den, X0) == DecimalAt(num, den, DecExp(num, den, X0))

\* <<ds, X>>: the SigDigits digits of m * 2^e rounded to SigDigits significant
\* digits (ties to even), and the decimal exponent of the rounded number
Decimal(m, e) ==
  DecimalOf(IF e >= 0 THEN BShl(m, e) ELSE m,
            IF e >= 0 THEN <<1>> ELSE BPow2(-e),
            ((BBitLen(m) + e - 1) * 30103) \div 100000)

\* the numeral of a small natural, with at least two digits (an exponent)
ExpStr(n) ==
  IF n < 10 THEN "0" \o DigitChar[n + 1]
  ELSE BStr(BOfInt(n))

\* The digits ds[1..n] with the decimal exponent X: fixed notation for
\* -4 <= X < SigDigits and exponent notation otherwise.
Written(ds, X, n) ==
  IF X >= 0 /\ X < SigDigits
  THEN Join(ds, 1, X + 1) \o (IF n > X + 1 THEN "." \o Join(ds, X + 2, n) ELSE "")
  ELSE IF X < 0 /\ X >= -4
  THEN "0." \o Repeat("0", -X - 1) \o Join(ds, 1, n)
  ELSE Join(ds, 1, 1) \o (IF n > 1 THEN "." \o Join(ds, 2, n) ELSE "")
       \o "e" \o (IF X < 0 THEN "-" ELSE "+") \o ExpStr(IF X < 0 THEN -X ELSE X)

\* trailing zeros are removed
Notation(dx) == Written(dx[1], dx[2], LastNonZero(dx[1]))

\* format(x, ".10g") of a finite float that is not zero, without its sign
FormatG(m, e) == Notation(Decimal(m, e))

\* f"{x:.10g}" of a float
FormatFloat(x) ==
  IF x.k = "nan" THEN "nan"
  ELSE (IF x.s = 1 THEN "-" ELSE "")
       \o (IF x.k = "inf" THEN "inf"
           ELSE IF IsZero(x) THEN "0"
           ELSE FormatG(x.m, x.e))

\* the format converts an int to a float first, and the except clause turns
\* its OverflowError into str(x)
Formatted(x, f) == IF IsRaise(f) THEN PyStr(x) ELSE FormatFloat(f)

pretty(x) == Formatted(x, ToFloat(x))

(***************************************************************************)
(* The conversion tables.  A dict is kept as the sequence of its items, in *)
(* the order of the source (the form shows the keys in that order).  The   *)
(* dict display is written down with the expressions of the source, and    *)
(* to_base is the dict it evaluates to when the module is loaded.  Unit     *)
(* names are spelled in ASCII: ^2 and ^3 for the superscripts, . for the   *)
(* middle dot and deg for the degree sign.                                 *)
(***************************************************************************)
to_base_display == <<
  <<"Length", <<
     <<"mm", Lit(1, -3)>>, <<"cm", Lit(1, -2)>>, <<"m", Lit(1, 0)>>, <<"km", Lit(1, 3)>>,
     <<"in", Lit(254, -4)>>, <<"ft", Lit(3048, -4)>>, <<"yd", Lit(9144, -4)>>,
     <<"mi", Lit(1609344, -3)>> >> >>,
  <<"Mass", <<
     <<"mg", Lit(1, -6)>>, <<"g", Lit(1, -3)>>, <<"kg", Lit(1, 0)>>,
     <<"t (metric)", Lit(1000, 0)>>,
     <<"oz", LitD(<<2, 8, 3, 4, 9, 5, 2, 3, 1, 2, 5>>, -12)>>,
     <<"lb", Lit(45359237, -8)>> >> >>,
  <<"Area", <<
     <<"mm^2", Lit(1, -6)>>, <<"cm^2", Lit(1, -4)>>, <<"m^2", Lit(1, 0)>>, <<"km^2", Lit(1, 6)>>,
     <<"in^2", Pow(Lit(254, -4), 2)>>, <<"ft^2", Pow(Lit(3048, -4), 2)>>,
     <<"yd^2", Pow(Lit(9144, -4), 2)>>,
     <<"acre", LitD(<<4, 0, 4, 6, 8, 5, 6, 4, 2, 2, 4>>, -7)>>,
     <<"hectare", Lit(10000, 0)>> >> >>,
  <<"Volume", <<
     <<"m^3", Lit(1, 0)>>, <<"L", Lit(1, -3)>>, <<"mL", Lit(1, -6)>>, <<"cm^3", Lit(1, -6)>>,
     <<"in^3", Pow(Lit(254, -4), 3)>>, <<"ft^3", Pow(Lit(3048, -4), 3)>>,
     <<"gal (US)", LitD(<<3, 7, 8, 5, 4, 1, 1, 7, 8, 4>>, -12)>>,
     <<"qt (US)", Lit(946352946, -12)>> >> >>,
  <<"Pressure", <<
     <<"Pa", Lit(1, 0)>>, <<"kPa", Lit(1, 3)>>, <<"MPa", Lit(1, 6)>>,
     <<"bar", Lit(1, 5)>>, <<"atm", Lit(101325, 0)>>,
     <<"psi", LitD(<<6, 8, 9, 4, 7, 5, 7, 2, 9, 3, 1, 6, 8>>, -9)>>,
     <<"torr", LitD(<<1, 3, 3, 3, 2, 2, 3, 6, 8, 4, 2, 1, 0, 5, 2, 6, 3>>, -14)>> >> >>,
  <<"Density", <<
     <<"kg/m^3", Lit(1, 0)>>, <<"g/cm^3", Lit(1000, 0)>>, <<"g/mL", Lit(1000, 0)>>,
     <<"lb/ft^3", Lit(1601846337, -8)>> >> >>,
  <<"Dynamic Viscosity", <<
     <<"Pa.s", Lit(1, 0)>>, <<"P (poise)", Lit(1, -1)>>, <<"cP", Lit(1, -3)>>,
     <<"mPa.s", Lit(1, -3)>> >> >>,
  <<"Energy", <<
     <<"J", Lit(1, 0)>>, <<"kJ", Lit(1, 3)>>, <<"MJ", Lit(1, 6)>>,
     <<"cal", Lit(4184, -3)>>, <<"kcal", Lit(4184, 0)>>,
     <<"BTU (IT)", LitD(<<1, 0, 5, 5, 0, 5, 5, 8, 5, 2, 6, 2>>, -8)>> >> >>,
  <<"Volumetric Flow", <<
     <<"m^3/s", Lit(1, 0)>>,
     <<"m^3/h", Div(Lit(1, 0), Lit(3600, 0))>>,
     <<"L/min", Div(Lit(1, -3), Lit(60, 0))>>,
     <<"ft^3/min (CFM)", Div(Pow(Lit(3048, -4), 3), Lit(60, 0))>>,
     <<"gal/min (US gpm)", Div(LitD(<<3, 7, 8, 5, 4, 1, 1, 7, 8, 4>>, -12), Lit(60, 0))>> >> >>,
  <<"Amount (moles)", <<
     <<"mmol", Lit(1, -3)>>, <<"mol", Lit(1, 0)>>, <<"kmol", Lit(1, 3)>> >> >>,
  <<"Molar Flow", <<
     <<"mol/s", Lit(1, 0)>>, <<"mol/h", Div(Lit(1, 0), Lit(3600, 0))>>,
     <<"kmol/h", Div(Lit(1, 3), Lit(3600, 0))>> >> >>,
  <<"Heat Transfer Coefficient", <<
     <<"W/m^2.K", Lit(1, 0)>>,
     <<"BTU/hr.ft^2.degF", Lit(5678263, -6)>> >> >>
  >>

\* the items of one category, each value evaluated
Items(units) == Tuple([j \in 1..Len(units) |-> <<units[j][1], Eval(units[j][2])>>])

to_base ==
  Tuple([i \in 1..Len(to_base_display) |->
           <<to_base_display[i][1], Items(to_base_display[i][2])>>])

TEMP_UNITS == <<"C", "F", "K">>

\* None, and a value that is not None
None == <<>>

Some(x) == <<x>>

\* list(d.keys()) of a dict kept as a sequence of <<key, value>> items
Keys(d) == Tuple([i \in 1..Len(d) |-> d[i][1]])

CATEGORIES == Keys(to_base) \o <<"Temperature">>

\* x in s, for a list s of strings and an x that may be None
InList(x, s) == \E i \in 1..Len(s) : Some(s[i]) = x

\* the place of the key k among the items d, 0 if it is not a key
Index(d, k) ==
  IF \E i \in 1..Len(d) : Some(d[i][1]) = k
  THEN CHOOSE i \in 1..Len(d) : Some(d[i][1]) = k
  ELSE 0

\* the value of the item at place i, or None for i = 0
ItemAt(d, i) == IF i = 0 THEN None ELSE Some(d[i][2])

\* a lookup that falls back to the first category, against which C1 is tested
GetOrFirst(cat) == ItemAt(to_base, Max(1, Index(to_base, cat)))

\* to_base.get(cat): the items of the category, or None
Get(cat) == ItemAt(to_base, Index(to_base, cat))

\* d[k]: KeyError when k is not a key
Subscript(d, i) == IF i = 0 THEN Raise("KeyError") ELSE d[i][2]

\* the first factor whatever the unit, against which C8 is tested
FirstFactor(factors, u) == Subscript(factors, Min(1, Len(factors)))

\* factors[u]
Factor(factors, u) == Subscript(factors, Index(factors, u))

(***************************************************************************)
(* Helpers.                                                                *)
(***************************************************************************)
\* no conversion on the way in, against which C7 is tested
kelvin_unconverted(value, unit) == value

temp_to_kelvin(value, unit) ==
  IF unit = Some("K") THEN value
  ELSE IF unit = Some("C") THEN Eval(Add(Val(value), Lit(27315, -2)))
  ELSE IF unit = Some("F")
  THEN Eval(Add(Div(Mul(Sub(Val(value), Lit(32, 0)), Lit(5, 0)), Lit(9, 0)), Lit(27315, -2)))
  ELSE Raise("ValueError")

\* Celsius whatever the unit, against which C9 is tested
kelvin_to_celsius(K, unit) == Eval(Sub(Val(K), Lit(27315, -2)))

kelvin_to_temp(K, unit) ==
  IF unit = Some("K") THEN K
  ELSE IF unit = Some("C") THEN Eval(Sub(Val(K), Lit(27315, -2)))
  ELSE IF unit = Some("F")
  THEN Eval(Add(Div(Mul(Sub(Val(K), Lit(27315, -2)), Lit(9, 0)), Lit(5, 0)), Lit(32, 0)))
  ELSE Raise("ValueError")

(***************************************************************************)
(* convert_value.  Its outcome is the string it returns or the exception   *)
(* that leaves it; beside it the model keeps the local variable result     *)
(* (None while it is not assigned).  The arguments may be None.            *)
(***************************************************************************)
Return(text) == [out |-> [kind |-> "return", text |-> text], result |-> None]

\* the two return statements of a conversion: an exception raised while
\* result is computed leaves the function instead
Converted(value, from_unit, result, to_unit) ==
  IF IsRaise(result)
  THEN [out |-> [kind |-> "raise", text |-> result.k], result |-> None]
  ELSE [out |-> [kind |-> "return",
                 text |-> pretty(value) \o " " \o from_unit[1] \o " = "
                          \o pretty(result) \o " " \o to_unit[1]],
        result |-> Some(result)]

\* a check of the category alone, against which C2 is tested
MissingCategory(category, from_unit, to_unit) == category = None

\* category is None or from_unit is None or to_unit is None
Missing(category, from_unit, to_unit) ==
  category = None \/ from_unit = None \/ to_unit = None

\* a check of from_unit alone, against which C4 is tested
NotFromIn(from_unit, to_unit, units) == ~InList(from_unit, units)

\* from_unit not in units or to_unit not in units
NotBothIn(from_unit, to_unit, units) ==
  ~InList(from_unit, units) \/ ~InList(to_unit, units)

\* no domain check at all, against which C5 is tested
NoDomainCheck(from_unit, value) == FALSE

\* from_unit == "K" and value < 0
NegativeKelvin(from_unit, value) == from_unit = Some("K") /\ IsNegative(value)

\* the branch of category == "Temperature"
Temperature(from_unit, to_unit, value) ==
  IF NotBothIn(from_unit, to_unit, TEMP_UNITS)
  THEN Return("Pick valid temperature units (C, F, K).")
  ELSE IF NegativeKelvin(from_unit, value)
  THEN Return("Kelvin cannot be negative.")
  ELSE Converted(value, from_unit,
                 kelvin_to_temp(temp_to_kelvin(value, from_unit), to_unit), to_unit)

\* the statements after factors = to_base.get(category)
Linear(factors, from_unit, to_unit, value) ==
  IF factors = None
  THEN Return("Unknown category.")
  ELSE IF NotBothIn(from_unit, to_unit, Keys(factors[1]))
  THEN Return("Selected units do not match the chosen category.")
  ELSE Converted(value, from_unit,
                 Eval(Div(Mul(Val(value), Val(Factor(factors[1], from_unit))),
                          Val(Factor(factors[1], to_unit)))),
                 to_unit)

convert_value(category, from_unit, to_unit, value) ==
  IF Missing(category, from_unit, to_unit)
  THEN Return("Please select category and units.")
  ELSE IF value = None
  THEN Return("Please enter a numeric value.")
  ELSE IF category = Some("Temperature")
  THEN Temperature(from_unit, to_unit, value[1])
  ELSE Linear(Get(category), from_unit, to_unit, value[1])

(***************************************************************************)
(* The form.  Each handler is an operator returning what the function      *)
(* returns; the actions below write the returned values to the components  *)
(* the listener names as its outputs.                                      *)
(***************************************************************************)
\* list(to_base.get(cat, {}).keys()), or TEMP_UNITS
Listed(cat, factors) ==
  IF cat = Some("Temperature") THEN TEMP_UNITS
  ELSE IF factors = None THEN <<>>
  ELSE Keys(factors[1])

\* if not units: units = ["--"]
OrDashes(units) == IF units = <<>> THEN <<"--">> ELSE units

\* the two updates returned: the choices, and the first and the second of
\* them (the first again if there is no second) as the values
Updates(units) ==
  LET default_from == units[1]
      default_to   == IF Len(units) > 1 THEN units[2] ELSE units[1]
  IN  <<[choices |-> units, value |-> Some(default_from)],
        [choices |-> units, value |-> Some(default_to)]>>

\* the units of Length whatever the category, against which C10 is tested
stale_unit_dropdowns(cat) == Updates(OrDashes(Listed(cat, Get(Some("Length")))))

update_unit_dropdowns(cat) == Updates(OrDashes(Listed(cat, Get(cat))))

do_swap(a, b) == <<b, a>>

do_clear == <<"", Some(Eval(Lit(1, 0)))>>

(***************************************************************************)
(* State.  category, from_unit, to_unit, value_in and result are the       *)
(* values of the components of the form, from_choices and to_choices the   *)
(* choices of the two unit dropdowns.  args holds the arguments of the     *)
(* call of convert_value in progress or last made, ret how it ended, and   *)
(* pc is "call" while a caller's call is pending.  events counts the       *)
(* events the form has handled.                                            *)
(***************************************************************************)
VARIABLES category, from_unit, to_unit, value_in, from_choices, to_choices,
          result, args, ret, pc, events

vars == <<category, from_unit, to_unit, value_in, from_choices, to_choices,
          result, args, ret, pc, events>>

form == <<category, from_unit, to_unit, value_in, from_choices, to_choices, result>>

NoRet == [out |-> [kind |-> "none", text |-> ""], result |-> None]

NoArgs == [category |-> None, from_unit |-> None, to_unit |-> None, value |-> None]

\* the components as the Blocks are built
FormInit ==
  /\ category = Some("Length")
  /\ from_choices = Keys(Get(Some("Length"))[1])
  /\ from_unit = Some("m")
  /\ to_choices = Keys(Get(Some("Length"))[1])
  /\ to_unit = Some("ft")
  /\ value_in = Some(Eval(Lit(1, 0)))
  /\ result = ""
  /\ events = 0

(***************************************************************************)
(* The arguments a caller of convert_value is taken to pass.               *)
(***************************************************************************)
Elements(s) == {s[i] : i \in 1..Len(s)}

CategoryInputs ==
  {None, Some(""), Some("Bogus")} \cup {Some(c) : c \in Elements(CATEGORIES)}

\* the units listed for a category, if it has any
UnitsOf(cat) ==
  IF cat = Some("Temperature") THEN Elements(TEMP_UNITS)
  ELSE IF Get(cat) = None THEN {}
  ELSE Elements(Keys(Get(cat)[1]))

\* missing, empty, unknown, of another category, and the category's own
UnitInputs(cat) ==
  {None, Some(""), Some("X"), Some("kg"), Some("m"), Some("ft")}
    \cup {Some(u) : u \in UnitsOf(cat)}

\* 2^1024, the least int beyond the floats
HugeInt == PyInt(0, BPow2(MaxExp + Prec))

\* floats written as in the source's examples, and ints
FloatInputs ==
  {Lit(-5, 0), Lit(0, 0), Lit(1, 0), Lit(25, -1), Lit(12, -1), Lit(212, 0),
   Lit(1, -9)}

Numbers ==
  {NaN, Inf(0), Inf(1), IntLit(3), IntLit(-3), HugeInt}
    \cup {Eval(l) : l \in FloatInputs}

ValueInputs == {None} \cup {Some(x) : x \in Numbers}

Init ==
  /\ FormInit
  /\ \E c \in CategoryInputs :
       \E f \in UnitInputs(c), t \in UnitInputs(c), v \in ValueInputs :
         args = [category |-> c, from_unit |-> f, to_unit |-> t, value |-> v]
  /\ ret = NoRet
  /\ pc = "call"

\* the call of convert_value with the caller's arguments
Call ==
  /\ pc = "call"
  /\ ret' = convert_value(args.category, args.from_unit, args.to_unit, args.value)
  /\ pc' = "done"
  /\ UNCHANGED <<form, args, events>>

Next == Call

Spec == Init /\ [][Next]_vars

(***************************************************************************)
(* The form in use: events arrive one at a time, and the handler of an     *)
(* event has written its outputs before the next event is handled.         *)
(***************************************************************************)
\* what the Number component holds: nothing, or a float
FormValues == {None} \cup {Some(Eval(l)) : l \in {Lit(1, 0), Lit(25, -1), Lit(-5, 0)}}

MaxEvents == 4

UIInit == FormInit /\ args = NoArgs /\ ret = NoRet /\ pc = "form"

\* the outputs of category.change: the two unit dropdowns
UnitsUpdated(out) ==
  /\ from_choices' = out[1].choices
  /\ from_unit' = out[1].value
  /\ to_choices' = out[2].choices
  /\ to_unit' = out[2].value

\* the user picks another category: category.change runs update_unit_dropdowns
CategoryChange ==
  /\ pc = "form" /\ events < MaxEvents
  /\ \E c \in Elements(CATEGORIES) :
       /\ Some(c) # category
       /\ category' = Some(c)
       /\ UnitsUpdated(update_unit_dropdowns(Some(c)))
  /\ events' = events + 1
  /\ UNCHANGED <<value_in, result, args, ret, pc>>

\* the user picks one of the choices of the From dropdown
SelectFrom ==
  /\ pc = "form" /\ events < MaxEvents
  /\ \E u \in Elements(from_choices) : from_unit' = Some(u)
  /\ events' = events + 1
  /\ UNCHANGED <<category, to_unit, value_in, from_choices, to_choices, result, args, ret, pc>>

\* the user picks one of the choices of the To dropdown
SelectTo ==
  /\ pc = "form" /\ events < MaxEvents
  /\ \E u \in Elements(to_choices) : to_unit' = Some(u)
  /\ events' = events + 1
  /\ UNCHANGED <<category, from_unit, value_in, from_choices, to_choices, result, args, ret, pc>>

\* the user edits the Number component
SetValue ==
  /\ pc = "form" /\ events < MaxEvents
  /\ \E v \in FormValues : value_in' = v
  /\ events' = events + 1
  /\ UNCHANGED <<category, from_unit, to_unit, from_choices, to_choices, result, args, ret, pc>>

\* convert_btn.click: convert_value on the four inputs, its return to result
ConvertClick ==
  /\ pc = "form" /\ events < MaxEvents
  /\ args' = [category |-> category, from_unit |-> from_unit, to_unit |-> to_unit,
              value |-> value_in]
  /\ ret' = convert_value(category, from_unit, to_unit, value_in)
  /\ result' = IF ret'.out.kind = "return" THEN ret'.out.text ELSE result
  /\ events' = events + 1
  /\ UNCHANGED <<category, from_unit, to_unit, value_in, from_choices, to_choices, pc>>

\* the outputs of swap_btn.click: the two unit dropdowns
UnitsSwapped(out) == from_unit' = out[1] /\ to_unit' = out[2]

\* swap_btn.click: do_swap on the two units, its returns to the two units
SwapClick ==
  /\ pc = "form" /\ events < MaxEvents
  /\ UnitsSwapped(do_swap(from_unit, to_unit))
  /\ events' = events + 1
  /\ UNCHANGED <<category, value_in, from_choices, to_choices, result, args, ret, pc>>

\* clear_btn.click: do_clear, its returns to result and value_in
ClearClick ==
  /\ pc = "form" /\ events < MaxEvents
  /\ result' = do_clear[1]
  /\ value_in' = do_clear[2]
  /\ events' = events + 1
  /\ UNCHANGED <<category, from_unit, to_unit, from_choices, to_choices, args, ret, pc>>

UINext ==
  \/ CategoryChange
  \/ SelectFrom
  \/ SelectTo
  \/ SetValue
  \/ ConvertClick
  \/ SwapClick
  \/ ClearClick

UISpec == UIInit /\ [][UINext]_vars

(***************************************************************************)
(* The properties.  The specification speaks of failure kinds; the code    *)
(* returns a message for each, and the kinds are read as the messages:     *)
(* UnknownCategory and MissingUnit are one message each, InvalidValue and  *)
(* UnitCategoryMismatch two each.  A call succeeded when it returned with  *)
(* result assigned.                                                        *)
(***************************************************************************)
UnknownCategory == "Unknown category."

MissingUnit == "Please select category and units."

ValueMissing == "Please enter a numeric value."

KelvinRejected == "Kelvin cannot be negative."

InvalidValue == {ValueMissing, KelvinRejected}

UnitCategoryMismatch ==
  {"Pick valid temperature units (C, F, K).",
   "Selected units do not match the chosen category."}

Done == pc = "done"

Returns(text) == ret.out.kind = "return" /\ ret.out.text = text

Fails(kind) == ret.out.kind = "return" /\ ret.out.text \in kind /\ ret.result = None

Succeeds == ret.out.kind = "return" /\ ret.result # None

\* the float n * 10^p
F(n, p) == Eval(Lit(n, p))

Recognised == {Some(c) : c \in Elements(CATEGORIES)}

LinearCategories == {Some(c) : c \in Elements(Keys(to_base))}

\* d[k] for a key k, read off the items
Lookup(d, k) == d[CHOOSE i \in 1..Len(d) : Some(d[i][1]) = k][2]

\* the factor of unit u in the table of the linear category cat
scaleToBase(cat, u) == Lookup(Lookup(to_base, cat), u)

Supplied(x) == x # None /\ x # Some("")

Call4(c, f, t, v) == [category |-> Some(c), from_unit |-> Some(f), to_unit |-> Some(t), value |-> Some(v)]

\* C1 as stated: whenever the category is missing or is neither a key of the
\* table nor "Temperature", the call fails with UnknownCategory, whatever the
\* units and the value are.
C1_CategoryCheckedFirst ==
  (Done /\ args.category \notin Recognised) => Returns(UnknownCategory)

\* C1, amended: for a category that is neither a key of the table nor
\* "Temperature", the call returns the MissingUnit message when the category
\* or a unit is None, else the missing-value message when the value is None,
\* and only else UnknownCategory; the three messages are distinct.
C1_UnknownCategoryLast ==
  /\ Cardinality({UnknownCategory, MissingUnit, ValueMissing}) = 3
  /\ (Done /\ args.category \notin Recognised) =>
        IF args.category = None \/ args.from_unit = None \/ args.to_unit = None
        THEN Fails({MissingUnit})
        ELSE IF args.value = None
        THEN Fails({ValueMissing})
        ELSE Fails({UnknownCategory})

\* convert_value("Bogus", "m", "ft", 1.0) has returned "Unknown category."
C1_Witness ==
  Done /\ args = Call4("Bogus", "m", "ft", F(1, 0)) /\ Returns(UnknownCategory)

\* C2 as stated: for every recognised category, if from_unit or to_unit is not
\* supplied or is the empty string, the call fails with MissingUnit, for any
\* value.
C2_EmptyUnitIsMissing ==
  (Done /\ args.category \in Recognised
        /\ (~Supplied(args.from_unit) \/ ~Supplied(args.to_unit)))
    => Fails({MissingUnit})

\* C2, amended: for every recognised category, a unit that is None makes the
\* call fail with MissingUnit for any value; with no unit None, a unit that is
\* the empty string makes it fail with the missing-value message when the
\* value is None and with UnitCategoryMismatch otherwise.
C2_NoneUnitIsMissing ==
  (Done /\ args.category \in Recognised
        /\ (~Supplied(args.from_unit) \/ ~Supplied(args.to_unit)))
    => IF args.from_unit = None \/ args.to_unit = None
       THEN Fails({MissingUnit})
       ELSE IF args.value = None
       THEN Fails({ValueMissing})
       ELSE Fails(UnitCategoryMismatch)

\* convert_value("Length", None, "ft", 1.0) has returned the MissingUnit message
C2_Witness ==
  /\ Done
  /\ args = [category |-> Some("Length"), from_unit |-> None, to_unit |-> Some("ft"),
             value |-> Some(F(1, 0))]
  /\ Returns(MissingUnit)

\* C3: for every recognised category and every pair of non-empty units, if
\* the value is missing or is not a finite number (NaN, +infinity,
\* -infinity), the call fails with InvalidValue and never succeeds.
C3_NonFiniteRejected ==
  (Done /\ args.category \in Recognised
        /\ Supplied(args.from_unit) /\ Supplied(args.to_unit)
        /\ (args.value = None \/ args.value[1].k # "fin"))
    => Fails(InvalidValue)

\* convert_value("Length", "m", "ft", float("nan")) has returned a conversion
C3_Witness ==
  Done /\ args = Call4("Length", "m", "ft", NaN) /\ Returns("nan m = nan ft") /\ Succeeds

\* C4: with a value and both units given, for a linear category a from_unit
\* or to_unit that is not a unit of that category (a unit of another category
\* included), and for Temperature one that is not "C", "F" or "K", makes the
\* call fail with UnitCategoryMismatch, and no result is produced.
C4_UnitCategoryMismatch ==
  (Done /\ args.category \in Recognised
        /\ args.from_unit # None /\ args.to_unit # None /\ args.value # None
        /\ (args.from_unit \notin {Some(u) : u \in UnitsOf(args.category)}
            \/ args.to_unit \notin {Some(u) : u \in UnitsOf(args.category)}))
    => /\ Fails(UnitCategoryMismatch)
       /\ args.category = Some("Temperature")
            <=> Returns("Pick valid temperature units (C, F, K).")

\* convert_value("Length", "kg", "m", 1.0) has returned the mismatch message
C4_Witness ==
  /\ Done /\ args = Call4("Length", "kg", "m", F(1, 0))
  /\ Returns("Selected units do not match the chosen category.")

\* C5: for Temperature with from_unit "K" and a value below 0 the call fails
\* with the negative-Kelvin message of InvalidValue for every to_unit among C,
\* F and K; a value that is not below 0 is never answered with that message,
\* and neither is any value when from_unit is C or F.
C5_NegativeKelvin ==
  (Done /\ args.category = Some("Temperature") /\ args.value # None
        /\ InList(args.from_unit, TEMP_UNITS) /\ InList(args.to_unit, TEMP_UNITS))
    => IF args.from_unit = Some("K") /\ IsNegative(args.value[1])
       THEN Fails({KelvinRejected})
       ELSE ~Returns(KelvinRejected)

\* convert_value("Temperature", "K", "K", -5.0) has been rejected
C5_Witness ==
  Done /\ args = Call4("Temperature", "K", "K", F(-5, 0)) /\ Fails({KelvinRejected})

\* C6: the call never raises: for every combination of category, units and
\* value it ends by returning a string, and the ValueError of temp_to_kelvin
\* and kelvin_to_temp never leaves it.
C6_NeverRaises == Done => ret.out.kind = "return"

\* convert_value("Length", "m", "ft", 2**1024) has raised OverflowError
C6_Witness ==
  /\ Done /\ args = Call4("Length", "m", "ft", HugeInt)
  /\ ret.out = [kind |-> "raise", text |-> "OverflowError"]

\* value to Kelvin as the specification writes it
toKelvin(value, unit) ==
  CASE unit = Some("K") -> value
    [] unit = Some("C") -> PyOp("+", value, F(27315, -2))
    [] unit = Some("F") ->
         PyOp("+", PyOp("/", PyOp("*", PyOp("-", value, F(32, 0)), F(5, 0)), F(9, 0)),
              F(27315, -2))

\* Kelvin to the unit as the specification writes it
kelvinToUnit(K, unit) ==
  CASE unit = Some("K") -> K
    [] unit = Some("C") -> PyOp("-", K, F(27315, -2))
    [] unit = Some("F") ->
         PyOp("+", PyOp("/", PyOp("*", PyOp("-", K, F(27315, -2)), F(9, 0)), F(5, 0)),
              F(32, 0))

\* C7: for Temperature every conversion that succeeds has the result
\* kelvinToUnit(toKelvin(value, from_unit), to_unit); C to F of 0 is 32, C to K
\* of 0 is 273.15 and F to C of 212 is 100.
C7_ThroughKelvin ==
  /\ (Done /\ args.category = Some("Temperature") /\ Succeeds)
       => ret.result = Some(kelvinToUnit(toKelvin(args.value[1], args.from_unit),
                                         args.to_unit))
  /\ (Done /\ args = Call4("Temperature", "C", "F", F(0, 0)))
       => ret.result = Some(F(32, 0)) /\ Returns("0 C = 32 F")
  /\ (Done /\ args = Call4("Temperature", "C", "K", F(0, 0)))
       => ret.result = Some(F(27315, -2)) /\ Returns("0 C = 273.15 K")
  /\ (Done /\ args = Call4("Temperature", "F", "C", F(212, 0)))
       => ret.result = Some(F(100, 0)) /\ Returns("212 F = 100 C")

\* convert_value("Temperature", "F", "C", 212.0) has returned "212 F = 100 C"
C7_Witness ==
  Done /\ args = Call4("Temperature", "F", "C", F(212, 0)) /\ Returns("212 F = 100 C")

\* C8: for every linear category every conversion that succeeds has the
\* result (x * scaleToBase[u1]) / scaleToBase[u2] with the two factors of
\* that category's table, and its text carries the two unit labels of the
\* call; Mass kg to g of 2.5 is 2500 and Density g/cm^3 to kg/m^3 of 1.2 is 1200.
C8_LinearThroughBase ==
  /\ (Done /\ args.category \in LinearCategories /\ Succeeds)
       => /\ ret.result =
               Some(PyOp("/", PyOp("*", args.value[1],
                                   scaleToBase(args.category, args.from_unit)),
                         scaleToBase(args.category, args.to_unit)))
          /\ Returns(pretty(args.value[1]) \o " " \o args.from_unit[1] \o " = "
                     \o pretty(ret.result[1]) \o " " \o args.to_unit[1])
  /\ (Done /\ args = Call4("Mass", "kg", "g", F(25, -1)))
       => ret.result = Some(F(2500, 0)) /\ Returns("2.5 kg = 2500 g")
  /\ (Done /\ args = Call4("Density", "g/cm^3", "kg/m^3", F(12, -1)))
       => ret.result = Some(F(1200, 0)) /\ Returns("1.2 g/cm^3 = 1200 kg/m^3")

\* convert_value("Mass", "kg", "g", 2.5) has returned "2.5 kg = 2500 g"
C8_Witness ==
  Done /\ args = Call4("Mass", "kg", "g", F(25, -1)) /\ Returns("2.5 kg = 2500 g")

\* a conversion of a unit of the category to itself, of a finite number that
\* has a float and is not a negative Kelvin input
SameUnit ==
  /\ Done /\ args.category \in Recognised /\ args.value # None
  /\ args.from_unit = args.to_unit
  /\ args.from_unit \in {Some(u) : u \in UnitsOf(args.category)}
  /\ args.value[1].k = "fin" /\ ~IsRaise(ToFloat(args.value[1]))
  /\ ~(args.category = Some("Temperature") /\ args.from_unit = Some("K")
       /\ IsNegative(args.value[1]))

\* C9 as stated: for every category, every unit u of it and every accepted
\* finite value x, the conversion of x from u to u succeeds with a value
\* exactly equal to x.
C9_IdentityExact ==
  SameUnit => Succeeds /\ ret.result = Some(ToFloat(args.value[1]))

\* the float 1.0 is the factor of the unit, or the unit is Kelvin
UnitFactorOne ==
  IF args.category = Some("Temperature") THEN args.from_unit = Some("K")
  ELSE scaleToBase(args.category, args.from_unit) = F(1, 0)

\* C9, amended: for every category, every unit u of it and every finite float
\* x (not negative for K), the conversion of x from u to u succeeds; its
\* value is exactly x when the factor of u is 1.0 and when u is K.
C9_IdentityOfBaseUnits ==
  (SameUnit /\ args.value[1].t = "float")
    => Succeeds /\ (UnitFactorOne => ret.result = args.value)

\* convert_value("Length", "m", "m", 2.5) has returned 2.5 unchanged
C9_Witness ==
  /\ Done /\ args = Call4("Length", "m", "m", F(25, -1))
  /\ ret.result = Some(F(25, -1)) /\ Returns("2.5 m = 2.5 m")

\* C10: from the initial form and after any events (category changes, unit
\* selections among the choices, value edits, Convert, Swap, Clear) the
\* selected from_unit and to_unit are among the units listed for the selected
\* category, which is a listed category, and no Convert click has returned
\* the unknown-category message or a units-do-not-match message, or raised.
C10_UnitsOfCategory ==
  /\ category \in Recognised
  /\ from_unit \in {Some(u) : u \in UnitsOf(category)}
  /\ to_unit \in {Some(u) : u \in UnitsOf(category)}
  /\ from_choices = to_choices
  /\ Elements(from_choices) = UnitsOf(category)
  /\ ret.out.kind # "raise"
  /\ ret.out.text \notin ({UnknownCategory} \cup UnitCategoryMismatch)
  /\ result \notin ({UnknownCategory} \cup UnitCategoryMismatch)

\* after a category change and a swap, Convert has converted F to C
C10_Witness ==
  /\ pc = "form" /\ category = Some("Temperature")
  /\ from_unit = Some("F") /\ to_unit = Some("C")
  /\ ret.result # None /\ result = ret.out.text /\ result # ""

====
